---- MODULE Spec2Model ----
(***************************************************************************)
(* Profile resolution and nickname synchronisation of the Overwatch bot:   *)
(* the Nickname class (classes/nickname.py) and the profile commands that  *)
(* drive it (cogs/profile.py).                                             *)
(*                                                                         *)
(* Every command invocation is a flow (a coroutine).  A flow advances one  *)
(* awaited call at a time, so the calls of two flows interleave at every   *)
(* database query, display-name edit and interactive wait.                 *)
(*                                                                         *)
(* Strings are sequences of one-character strings.                         *)
(*                                                                         *)
(* The call sites in cogs/profile.py construct Nickname(interaction,       *)
(* bot=...), a keyword that Nickname.__init__ (nickname.py:25) does not    *)
(* declare; the handlers are followed past the construction, with the bot  *)
(* taken from the interaction as nickname.py:27 does.                      *)
(***************************************************************************)
EXTENDS Integers, Sequences, FiniteSets, TLC

VARIABLES nickname, profile, rating, display, flow, invoked, enc

vars == <<nickname, profile, rating, display, flow, invoked, enc>>

----------------------------------------------------------------------------
(* Bounds *)

\* longest member name drawn for the encoder
MaxNameLen == 34

\* number of command invocations in a run
MaxInvocations == 2

\* number of nickname commands in a run of one account's nickname commands
MaxNicknameInvocations == 3

----------------------------------------------------------------------------
(* Program constants *)

MAX_NICKNAME_LENGTH == 32

\* the literal slice bound of the unranked branch, name[:21]
UnrankedNameLen == 21

None == "None"

\* nick=None of member.edit: the display name is cleared.  _generate never
\* returns the empty string, it always holds the separating space
NoNick == <<>>

----------------------------------------------------------------------------
(* Text *)

Alphabet ==
    <<"a", "b", "c", "d", "e", "f", "g", "h", "i", "j", "k", "l", "m",
      "n", "o", "p", "q", "r", "s", "t", "u", "v", "w", "x", "y", "z">>

DigitChar == <<"0", "1", "2", "3", "4", "5", "6", "7", "8", "9">>

\* the member name of length n: its i-th character identifies position i
NameOfLen(n) == [i \in 1..n |-> Alphabet[((i - 1) % 26) + 1]]

RECURSIVE Digits(_)
Digits(n) ==
    IF n < 10 THEN <<DigitChar[n + 1]>>
    ELSE Digits(n \div 10) \o <<DigitChar[(n % 10) + 1]>>

\* str(value) of an integer, as the f-string formats it
IntToStr(n) == IF n < 0 THEN <<"-">> \o Digits(0 - n) ELSE Digits(n)

Min(a, b) == IF a < b THEN a ELSE b
Max(a, b) == IF a > b THEN a ELSE b

\* Python s[:x]: a negative x counts from the end of s
SliceTo(s, x) ==
    IF x >= 0 THEN SubSeq(s, 1, Min(x, Len(s)))
    ELSE SubSeq(s, 1, Max(0, Len(s) + x))

\* Python s[:-1]
DropLast(s) == SliceTo(s, 0 - 1)

Unranked == <<"[", "U", "n", "r", "a", "n", "k", "e", "d", "]">>

----------------------------------------------------------------------------
(* Nickname encoder *)

RoleNames == {"tank", "offense", "support"}

\* ROLES.get(key): the glyph of a role, None (formatted "None") otherwise
ROLES(key) ==
    CASE key = "tank"    -> <<"u_tank">>
      [] key = "offense" -> <<"u_offense">>
      [] key = "support" -> <<"u_support">>
      [] OTHER           -> <<"N", "o", "n", "e">>

\* the loop over ratings.items(): ratings is the map in its iteration order,
\* a sequence of <<key, value>> pairs
RECURSIVE JoinRatings(_)
JoinRatings(ratings) ==
    IF ratings = <<>> THEN <<>>
    ELSE ROLES(Head(ratings)[1]) \o IntToStr(Head(ratings)[2]) \o <<"/">>
         \o JoinRatings(Tail(ratings))

\* tmp = "[" + tmp[:-1] + "]"
Suffix(ratings) == <<"[">> \o DropLast(JoinRatings(ratings)) \o <<"]">>

\* _generate without the -1 that reserves the separating space
Generate_NoSpace(name, ratings) ==
    IF ratings = <<>>
    THEN SliceTo(name, UnrankedNameLen) \o <<" ">> \o Unranked
    ELSE LET tmp == Suffix(ratings)
             x   == MAX_NICKNAME_LENGTH - Len(tmp)
         IN  SliceTo(name, x) \o <<" ">> \o tmp

\* _generate keeping one character less of the name of an unranked member
Generate_ShortUnranked(name, ratings) ==
    IF ratings = <<>>
    THEN SliceTo(name, UnrankedNameLen - 1) \o <<" ">> \o Unranked
    ELSE LET tmp == Suffix(ratings)
             x   == MAX_NICKNAME_LENGTH - Len(tmp) - 1
         IN  SliceTo(name, x) \o <<" ">> \o tmp

\* Nickname._generate for member name `name` and resolved ratings `ratings`
Generate(name, ratings) ==
    IF ratings = <<>>
    THEN SliceTo(name, UnrankedNameLen) \o <<" ">> \o Unranked
    ELSE LET tmp == Suffix(ratings)
             x   == MAX_NICKNAME_LENGTH - Len(tmp) - 1
         IN  SliceTo(name, x) \o <<" ">> \o tmp

----------------------------------------------------------------------------
(* The world of the commands *)

Accounts == {"a1", "a2"}

Guilds == {"g1", "g2"}

\* the flows that can be in progress at the same time
Flows == {1, 2}

\* member.name of each account
MemberName(a) == IF a = "a1" THEN NameOfLen(5) ELSE NameOfLen(30)

\* what profile.compute_data() / resolve_ratings() can hand to a command
RatingsChoices == { <<>>, << <<"tank", 2500>>, <<"support", 3100>> >> }

\* results of member.edit: success, a platform error (discord.HTTPException,
\* Forbidden included) or any other exception (connection error, timeout)
EditOutcomes == {"ok", "HTTPException", "Exception"}

\* rows of the profile table at start: a1 has linked two profiles, a2 one
InitProfiles ==
    { [id |-> 1, member_id |-> "a1"],
      [id |-> 2, member_id |-> "a1"],
      [id |-> 3, member_id |-> "a2"] }

\* bot.get_profiles_limit: the number of profiles an account may browse
ProfilesLimit == 5

ProfileIds == { p.id : p \in InitProfiles }

NickRow(a, g, p) == [id |-> a, server_id |-> g, profile_id |-> p]

\* the rows earlier runs of the bot may have left in the nickname table
InitNicknames ==
    { {}, {NickRow("a1", "g1", 1)} }

IdleFlow ==
    [ pc |-> "idle", cmd |-> None, user |-> None, guild |-> None,
      member |-> None, profiles |-> {}, pid |-> 0, ratings |-> <<>>,
      private |-> FALSE, edit |-> "none", msgs |-> <<>>, calls |-> {},
      author |-> None, chooser |-> None ]

NoEnc == [name |-> <<>>, ratings |-> <<>>, out |-> NoNick]

Init ==
    /\ nickname \in InitNicknames
    /\ profile = InitProfiles
    /\ rating = [p \in ProfileIds |-> 0]
    /\ display = [a \in Accounts |-> [g \in Guilds |-> NoNick]]
    /\ flow = [f \in Flows |-> IdleFlow]
    /\ invoked = 0
    /\ enc = NoEnc

----------------------------------------------------------------------------
(* Queries *)

\* Nickname.exists: SELECT EXISTS (SELECT TRUE FROM nickname WHERE id = $1)
Exists(a) == \E r \in nickname : r.id = a

\* the has_profile() check of the commands
HasProfile(a) == \E p \in profile : p.member_id = a

\* ProfileCog.get_profiles: the ids of the member's profiles, at most
\* ProfilesLimit of them (LIMIT keeps any of the rows)
GetProfiles(m) ==
    LET ids == { p.id : p \in { q \in profile : q.member_id = m } }
    IN  { s \in SUBSET ids : Cardinality(s) = Min(ProfilesLimit, Cardinality(ids)) }

\* followup.send / response.send_message of flow f
Send(fl, m) == [fl EXCEPT !.msgs = Append(@, m)]

Called(fl, c) == [fl EXCEPT !.calls = @ \cup {c}]

\* the command returns: its locals are gone, what it sent and the calls it
\* made remain
Finish(fl) ==
    [fl EXCEPT !.pc = "done", !.profiles = {}, !.pid = 0, !.ratings = <<>>]

\* NoChoice leaves the command
Raise(fl) ==
    [fl EXCEPT !.pc = "NoChoice", !.profiles = {}, !.pid = 0, !.ratings = <<>>]

\* the primary key of the nickname table, nickname(account_id PRIMARY KEY,
\* guild_id, profile_id): a row of account a cannot be added to t
PrimaryKeyViolation(t, a) == \E r \in t : r.id = a

\* INSERT without the key: a second row of the account is stored
InsertNickname_NoKey(t, a, g, p) ==
    [ok |-> TRUE, table |-> t \cup {NickRow(a, g, p)}]

\* INSERT ... ON CONFLICT (id) DO UPDATE: the row of the account is replaced
InsertNickname_Upsert(t, a, g, p) ==
    [ok |-> TRUE, table |-> {r \in t : r.id # a} \cup {NickRow(a, g, p)}]

\* INSERT INTO nickname (id, server_id, profile_id) VALUES ($1, $2, $3):
\* UniqueViolation is raised when the key rejects the row
InsertNickname(t, a, g, p) ==
    IF PrimaryKeyViolation(t, a)
    THEN [ok |-> FALSE, table |-> t]
    ELSE [ok |-> TRUE, table |-> t \cup {NickRow(a, g, p)}]

\* embed_ratings(save=True, profile_id=...): one more snapshot row of the
\* profile in the rating table, kept as the number of rows per profile
SaveRatings(t, p) == [t EXCEPT ![p] = @ + 1]

\* DELETE FROM nickname WHERE id = $1
DeleteNickname(t, a) == { r \in t : r.id # a }

\* member.edit(nick=nick) succeeded: the member is the interaction's user in
\* the interaction's guild
EditDisplay(d, a, g, nick) == [d EXCEPT ![a][g] = nick]

----------------------------------------------------------------------------
(* Command invocation *)

\* a flow that has not begun, has returned, or was left by NoChoice
Ended == {"idle", "done", "NoChoice"}

\* invocations held back while any selection menu is waiting
Start_Serialized(f, c, u, g, m, max) ==
    /\ flow[f].pc \in Ended
    /\ \A h \in Flows : flow[h].pc # "wait"
    /\ IF f = 1 THEN TRUE ELSE flow[1].pc # "idle"
    /\ invoked < max
    /\ invoked' = invoked + 1
    /\ HasProfile(u)
    /\ IF c = "ratings" THEN TRUE ELSE m = u
    /\ IF c = "unlink" THEN g = "g1" ELSE TRUE
    /\ flow' = [flow EXCEPT ![f] =
                  [IdleFlow EXCEPT !.cmd = c, !.user = u, !.guild = g, !.member = m,
                            !.pc = CASE c = "nickname" -> "exists"
                                     [] c = "ratings"  -> "select"
                                     [] OTHER          -> "unlink_fetch"]]
    /\ UNCHANGED <<nickname, profile, rating, display, enc>>

\* a profile command passes its checks and defers its response; at most
\* max commands are invoked in a run
Start(f, c, u, g, m, max) ==
    /\ flow[f].pc \in Ended
    /\ IF f = 1 THEN TRUE ELSE flow[1].pc # "idle"
    /\ invoked < max
    /\ invoked' = invoked + 1
    /\ HasProfile(u)
    /\ IF c = "ratings" THEN TRUE ELSE m = u
    /\ IF c = "unlink" THEN g = "g1" ELSE TRUE
    /\ flow' = [flow EXCEPT ![f] =
                  [IdleFlow EXCEPT !.cmd = c, !.user = u, !.guild = g, !.member = m,
                            !.pc = CASE c = "nickname" -> "exists"
                                     [] c = "ratings"  -> "select"
                                     [] OTHER          -> "unlink_fetch"]]
    /\ UNCHANGED <<nickname, profile, rating, display, enc>>

Invoke(f, c, u, g, m) == Start(f, c, u, g, m, MaxInvocations)

\* /profile nickname of account a1
InvokeNickname(f, g) == Start(f, "nickname", "a1", g, "a1", MaxNicknameInvocations)

----------------------------------------------------------------------------
(* ProfileCog.select_profile *)

\* select_profile without the shortcut for a single profile
SelectProfile_AlwaysMenu(f) ==
    /\ flow[f].pc = "select"
    /\ \E ps \in GetProfiles(flow[f].member) :
         flow' = [flow EXCEPT ![f] =
                    Send(Called([@ EXCEPT !.profiles = ps, !.pc = "wait",
                                          !.author = flow[f].user],
                                "view"), "menu")]
    /\ UNCHANGED <<nickname, profile, rating, display, invoked, enc>>

\* the menu scoped to the member browsed instead of the invoker
SelectProfile_MemberAuthor(f) ==
    /\ flow[f].pc = "select"
    /\ \E ps \in GetProfiles(flow[f].member) :
         flow' = [flow EXCEPT ![f] =
                    IF Cardinality(ps) = 1
                    THEN [@ EXCEPT !.profiles = ps,
                                   !.pid = CHOOSE p \in ps : TRUE,
                                   !.pc = "compute"]
                    ELSE Send(Called([@ EXCEPT !.profiles = ps, !.pc = "wait",
                                               !.author = flow[f].member],
                                     "view"), "menu")]
    /\ UNCHANGED <<nickname, profile, rating, display, invoked, enc>>

\* get_profiles, then the single profile or the selection menu
SelectProfile(f) ==
    /\ flow[f].pc = "select"
    /\ \E ps \in GetProfiles(flow[f].member) :
         flow' = [flow EXCEPT ![f] =
                    IF Cardinality(ps) = 1
                    THEN [@ EXCEPT !.profiles = ps,
                                   !.pid = CHOOSE p \in ps : TRUE,
                                   !.pc = "compute"]
                    ELSE Send(Called([@ EXCEPT !.profiles = ps, !.pc = "wait",
                                               !.author = flow[f].user],
                                     "view"), "menu")]
    /\ UNCHANGED <<nickname, profile, rating, display, invoked, enc>>

\* the interaction check of the selection menu: only the account the menu
\* was created for (author_id) may use it
InteractionCheck(fl, who) == who = fl.author

\* select_profile returning the chosen value without looking it up among
\* the profiles fetched
ViewChoice_AnyValue(f, who, v) ==
    /\ flow[f].pc = "wait"
    /\ flow' = [flow EXCEPT ![f] =
                  IF ~InteractionCheck(@, who) THEN @
                  ELSE [@ EXCEPT !.pid = v, !.chooser = who, !.pc = "compute"]]
    /\ UNCHANGED <<nickname, profile, rating, display, invoked, enc>>

\* account who selects the value v of the menu of flow f.  The menu rejects
\* an account it is not scoped to and stays as it is; otherwise view.wait()
\* returns, the profile with that id is returned, NoChoice is raised if
\* there is none
ViewChoice(f, who, v) ==
    /\ flow[f].pc = "wait"
    /\ flow' = [flow EXCEPT ![f] =
                  IF ~InteractionCheck(@, who) THEN @
                  ELSE IF \E p \in @.profiles : p = v
                  THEN [@ EXCEPT !.pid = v, !.chooser = who, !.pc = "compute"]
                  ELSE Raise([@ EXCEPT !.chooser = who])]
    /\ UNCHANGED <<nickname, profile, rating, display, invoked, enc>>

\* a timeout that falls back on a profile of the menu
ViewTimeout_Fallback(f) ==
    /\ flow[f].pc = "wait"
    /\ flow' = [flow EXCEPT ![f] =
                  IF @.profiles = {} THEN Raise(@)
                  ELSE [@ EXCEPT !.pid = CHOOSE p \in flow[f].profiles : TRUE,
                                 !.pc = "compute"]]
    /\ UNCHANGED <<nickname, profile, rating, display, invoked, enc>>

\* a timeout that drops the binding of the invoker before NoChoice is raised
ViewTimeout_Unbinds(f) ==
    /\ flow[f].pc = "wait"
    /\ nickname' = DeleteNickname(nickname, flow[f].user)
    /\ flow' = [flow EXCEPT ![f] = Raise(Called(@, "delete"))]
    /\ UNCHANGED <<profile, rating, display, invoked, enc>>

\* view.wait() returns on timeout with no value: NoChoice leaves the command
ViewTimeout(f) ==
    /\ flow[f].pc = "wait"
    /\ flow' = [flow EXCEPT ![f] = Raise(@)]
    /\ UNCHANGED <<nickname, profile, rating, display, invoked, enc>>

----------------------------------------------------------------------------
(* ProfileCog.nickname and Nickname.set_or_remove *)

\* the nickname command deleting the row of a bound account although the
\* prompt was declined
NickExists_DeclineRemoves(f, confirmed, lower) ==
    /\ flow[f].pc = "exists"
    /\ flow' = [flow EXCEPT ![f] =
                  CASE ~confirmed       -> Finish(@)
                    [] Exists(@.user)   -> [@ EXCEPT !.pc = "rm_edit"]
                    [] lower            -> Finish(Send(@, "hierarchy"))
                    [] OTHER            -> [@ EXCEPT !.pc = "select"]]
    /\ nickname' = IF ~confirmed THEN DeleteNickname(nickname, flow[f].user)
                   ELSE nickname
    /\ UNCHANGED <<profile, rating, display, invoked, enc>>

\* nick.exists() decides between the removal and the set branch; the
\* prompt of the branch is confirmed or declined, and the set branch then
\* compares the roles: lower is me.top_role < author.top_role
NickExists(f, confirmed, lower) ==
    /\ flow[f].pc = "exists"
    /\ flow' = [flow EXCEPT ![f] =
                  CASE ~confirmed       -> Finish(@)
                    [] Exists(@.user)   -> [@ EXCEPT !.pc = "rm_edit"]
                    [] lower            -> Finish(Send(@, "hierarchy"))
                    [] OTHER            -> [@ EXCEPT !.pc = "select"]]
    /\ UNCHANGED <<nickname, profile, rating, display, invoked, enc>>

\* set_or_remove(remove=True): member.edit(nick=None).  An HTTPException is
\* reported and the removal goes on; any other exception leaves
\* set_or_remove and is reported by the command
RemoveEdit(f, outcome) ==
    /\ flow[f].pc = "rm_edit"
    /\ LET fl == Called([flow[f] EXCEPT !.edit = outcome], "edit")
       IN  /\ flow' = [flow EXCEPT ![f] =
                         CASE outcome = "ok" -> [fl EXCEPT !.pc = "rm_delete"]
                           [] outcome = "HTTPException" ->
                                Send([fl EXCEPT !.pc = "rm_delete"], "bad")
                           [] OTHER -> Finish(Send(fl, "error"))]
           /\ display' = IF outcome = "ok"
                         THEN EditDisplay(display, fl.user, fl.guild, NoNick)
                         ELSE display
    /\ UNCHANGED <<nickname, profile, rating, invoked, enc>>

\* set_or_remove(remove=True): the row is deleted and the removal confirmed
RemoveDelete(f) ==
    /\ flow[f].pc = "rm_delete"
    /\ nickname' = DeleteNickname(nickname, flow[f].user)
    /\ flow' = [flow EXCEPT ![f] = Finish(Send(Called(@, "delete"), "removed"))]
    /\ UNCHANGED <<profile, rating, display, invoked, enc>>

\* the nickname command without its is_private() check
NickCompute_NoPrivateCheck(f, rs, priv) ==
    /\ flow[f].pc = "compute"
    /\ flow[f].cmd = "nickname"
    /\ flow' = [flow EXCEPT ![f] =
                  [@ EXCEPT !.ratings = rs, !.private = priv, !.pc = "set_edit"]]
    /\ UNCHANGED <<nickname, profile, rating, display, invoked, enc>>

\* profile.compute_data() of the nickname command: a private profile ends it
NickCompute(f, rs, priv) ==
    /\ flow[f].pc = "compute"
    /\ flow[f].cmd = "nickname"
    /\ LET fl == [flow[f] EXCEPT !.ratings = rs, !.private = priv]
       IN  flow' = [flow EXCEPT ![f] =
                      IF priv THEN Finish(Send(fl, "private"))
                      ELSE [fl EXCEPT !.pc = "set_edit"]]
    /\ UNCHANGED <<nickname, profile, rating, display, invoked, enc>>

\* set_or_remove passing over an HTTPException without a message
SetEdit_Silent(f, outcome) ==
    /\ flow[f].pc = "set_edit"
    /\ LET fl   == Called([flow[f] EXCEPT !.edit = outcome], "edit")
           nick == Generate(MemberName(fl.user), fl.ratings)
       IN  /\ flow' = [flow EXCEPT ![f] =
                         CASE outcome = "ok" -> [fl EXCEPT !.pc = "set_insert"]
                           [] outcome = "HTTPException" ->
                                [fl EXCEPT !.pc = "set_insert"]
                           [] OTHER -> Finish(Send(fl, "error"))]
           /\ display' = IF outcome = "ok"
                         THEN EditDisplay(display, fl.user, fl.guild, nick)
                         ELSE display
    /\ UNCHANGED <<nickname, profile, rating, invoked, enc>>

\* set_or_remove(profile_id=...): member.edit(nick=_generate())
SetEdit(f, outcome) ==
    /\ flow[f].pc = "set_edit"
    /\ LET fl   == Called([flow[f] EXCEPT !.edit = outcome], "edit")
           nick == Generate(MemberName(fl.user), fl.ratings)
       IN  /\ flow' = [flow EXCEPT ![f] =
                         CASE outcome = "ok" -> [fl EXCEPT !.pc = "set_insert"]
                           [] outcome = "HTTPException" ->
                                Send([fl EXCEPT !.pc = "set_insert"], "bad")
                           [] OTHER -> Finish(Send(fl, "error"))]
           /\ display' = IF outcome = "ok"
                         THEN EditDisplay(display, fl.user, fl.guild, nick)
                         ELSE display
    /\ UNCHANGED <<nickname, profile, rating, invoked, enc>>

\* set_or_remove writing the row with an upsert
SetInsert_Upsert(f) ==
    /\ flow[f].pc = "set_insert"
    /\ LET res == InsertNickname_Upsert(nickname, flow[f].user, flow[f].guild,
                                        flow[f].pid)
           fl  == Called(flow[f], "insert")
       IN  /\ nickname' = res.table
           /\ flow' = [flow EXCEPT ![f] = Finish(Send(fl, "set"))]
    /\ UNCHANGED <<profile, rating, display, invoked, enc>>

\* the nickname command dropping the failure of the insert instead of
\* sending it
SetInsert_Escapes(f) ==
    /\ flow[f].pc = "set_insert"
    /\ LET res == InsertNickname(nickname, flow[f].user, flow[f].guild, flow[f].pid)
           fl  == Called(flow[f], "insert")
       IN  /\ nickname' = res.table
           /\ flow' = [flow EXCEPT ![f] =
                         IF res.ok THEN Finish(Send(fl, "set"))
                         ELSE Finish(fl)]
    /\ UNCHANGED <<profile, rating, display, invoked, enc>>

\* set_or_remove writing the row into a table that has no key
SetInsert_NoKey(f) ==
    /\ flow[f].pc = "set_insert"
    /\ LET res == InsertNickname_NoKey(nickname, flow[f].user, flow[f].guild,
                                       flow[f].pid)
           fl  == Called(flow[f], "insert")
       IN  /\ nickname' = res.table
           /\ flow' = [flow EXCEPT ![f] = Finish(Send(fl, "set"))]
    /\ UNCHANGED <<profile, rating, display, invoked, enc>>

\* set_or_remove(profile_id=...): the row is inserted and the binding
\* confirmed; a rejected insert is reported by the command
SetInsert(f) ==
    /\ flow[f].pc = "set_insert"
    /\ LET res == InsertNickname(nickname, flow[f].user, flow[f].guild, flow[f].pid)
           fl  == Called(flow[f], "insert")
       IN  /\ nickname' = res.table
           /\ flow' = [flow EXCEPT ![f] =
                         IF res.ok THEN Finish(Send(fl, "set"))
                         ELSE Finish(Send(fl, "error"))]
    /\ UNCHANGED <<profile, rating, display, invoked, enc>>

----------------------------------------------------------------------------
(* ProfileCog.ratings and Nickname.update *)

\* compute_data(); a private profile is answered with embed_private, else
\* embed_ratings(save=True) stores the snapshot
RatingsCompute(f, rs, priv) ==
    /\ flow[f].pc = "compute"
    /\ flow[f].cmd = "ratings"
    /\ LET fl == [flow[f] EXCEPT !.ratings = rs, !.private = priv]
       IN  /\ flow' = [flow EXCEPT ![f] =
                         IF priv THEN Finish(Send(fl, "private"))
                         ELSE Called([fl EXCEPT !.pc = "flag"], "save")]
           /\ rating' = IF priv THEN rating
                        ELSE SaveRatings(rating, fl.pid)
    /\ UNCHANGED <<nickname, profile, display, invoked, enc>>

\* the ratings command refreshing whenever the profile is bound, whoever
\* its owner is
RatingsFlag_NoOwnerCheck(f) ==
    /\ flow[f].pc = "flag"
    /\ LET flag == \E r \in nickname : r.profile_id = flow[f].pid
       IN  flow' = [flow EXCEPT ![f] =
                      IF flag
                      THEN Called([@ EXCEPT !.pc = "upd_exists"], "update")
                      ELSE Finish(Send(@, "ratings"))]
    /\ UNCHANGED <<nickname, profile, rating, display, invoked, enc>>

\* SELECT * FROM nickname WHERE profile_id = $1, and member is the invoker
RatingsFlag(f) ==
    /\ flow[f].pc = "flag"
    /\ LET flag == \E r \in nickname : r.profile_id = flow[f].pid
       IN  flow' = [flow EXCEPT ![f] =
                      IF flag /\ @.member = @.user
                      THEN Called([@ EXCEPT !.pc = "upd_exists"], "update")
                      ELSE Finish(Send(@, "ratings"))]
    /\ UNCHANGED <<nickname, profile, rating, display, invoked, enc>>

\* Nickname.update without its exists() check
UpdateExists_NoCheck(f) ==
    /\ flow[f].pc = "upd_exists"
    /\ flow' = [flow EXCEPT ![f].pc = "upd_edit"]
    /\ UNCHANGED <<nickname, profile, rating, display, invoked, enc>>

\* Nickname.update: nothing to do without a row of the invoker
UpdateExists(f) ==
    /\ flow[f].pc = "upd_exists"
    /\ flow' = [flow EXCEPT ![f] =
                  IF Exists(@.user) THEN [@ EXCEPT !.pc = "upd_edit"]
                  ELSE Finish(Send(@, "ratings"))]
    /\ UNCHANGED <<nickname, profile, rating, display, invoked, enc>>

\* update passing over HTTPException only: any other exception leaves the
\* ratings command before its response
UpdateEdit_HTTPOnly(f, outcome) ==
    /\ flow[f].pc = "upd_edit"
    /\ LET fl   == Called([flow[f] EXCEPT !.edit = outcome], "edit")
           nick == Generate(MemberName(fl.user), fl.ratings)
       IN  /\ flow' = [flow EXCEPT ![f] =
                         IF outcome = "Exception" THEN Finish(fl)
                         ELSE Finish(Send(fl, "ratings"))]
           /\ display' = IF outcome = "ok"
                         THEN EditDisplay(display, fl.user, fl.guild, nick)
                         ELSE display
    /\ UNCHANGED <<nickname, profile, rating, invoked, enc>>

\* update dropping the row of the account when member.edit fails
UpdateEdit_DropsRow(f, outcome) ==
    /\ flow[f].pc = "upd_edit"
    /\ LET fl   == Called([flow[f] EXCEPT !.edit = outcome], "edit")
           nick == Generate(MemberName(fl.user), fl.ratings)
       IN  /\ flow' = [flow EXCEPT ![f] = Finish(Send(fl, "ratings"))]
           /\ display' = IF outcome = "ok"
                         THEN EditDisplay(display, fl.user, fl.guild, nick)
                         ELSE display
           /\ nickname' = IF outcome = "ok" THEN nickname
                          ELSE DeleteNickname(nickname, fl.user)
    /\ UNCHANGED <<profile, rating, invoked, enc>>

\* Nickname.update: member.edit(nick=_generate()), every exception passed
\* over; the command then sends the ratings embed
UpdateEdit(f, outcome) ==
    /\ flow[f].pc = "upd_edit"
    /\ LET fl   == Called([flow[f] EXCEPT !.edit = outcome], "edit")
           nick == Generate(MemberName(fl.user), fl.ratings)
       IN  /\ flow' = [flow EXCEPT ![f] = Finish(Send(fl, "ratings"))]
           /\ display' = IF outcome = "ok"
                         THEN EditDisplay(display, fl.user, fl.guild, nick)
                         ELSE display
    /\ UNCHANGED <<nickname, profile, rating, invoked, enc>>

----------------------------------------------------------------------------
(* ProfileCog.unlink *)

\* get_profiles: a single profile is put to the prompt, several to a menu
UnlinkFetch(f) ==
    /\ flow[f].pc = "unlink_fetch"
    /\ \E ps \in GetProfiles(flow[f].user) :
         flow' = [flow EXCEPT ![f] =
                    IF Cardinality(ps) = 1
                    THEN [@ EXCEPT !.profiles = ps,
                                   !.pid = CHOOSE p \in ps : TRUE,
                                   !.pc = "unlink_prompt"]
                    ELSE Finish(Send(Called([@ EXCEPT !.profiles = ps], "views"),
                                     "menu"))]
    /\ UNCHANGED <<nickname, profile, rating, display, invoked, enc>>

\* the nickname table after the row of profile p has been deleted from the
\* profile table: nickname(account_id PRIMARY KEY, guild_id, profile_id) has
\* no reference to the profile table, its rows stay as they are
NicknameOnProfileDelete(t, p) == t

\* unlink deleting the rows of the nickname table that name the profile too
UnlinkPrompt_DeletesBinding(f, confirmed) ==
    /\ flow[f].pc = "unlink_prompt"
    /\ profile' = IF confirmed THEN { p \in profile : p.id # flow[f].pid }
                  ELSE profile
    /\ nickname' = IF confirmed
                   THEN { r \in nickname : r.profile_id # flow[f].pid }
                   ELSE nickname
    /\ flow' = [flow EXCEPT ![f] =
                  IF confirmed THEN Finish(Send(@, "unlinked")) ELSE Finish(@)]
    /\ UNCHANGED <<rating, display, invoked, enc>>

\* the prompt confirmed: DELETE FROM profile WHERE id = $1
UnlinkPrompt(f, confirmed) ==
    /\ flow[f].pc = "unlink_prompt"
    /\ profile' = IF confirmed THEN { p \in profile : p.id # flow[f].pid }
                  ELSE profile
    /\ nickname' = IF confirmed
                   THEN NicknameOnProfileDelete(nickname, flow[f].pid)
                   ELSE nickname
    /\ flow' = [flow EXCEPT ![f] =
                  IF confirmed THEN Finish(Send(@, "unlinked")) ELSE Finish(@)]
    /\ UNCHANGED <<rating, display, invoked, enc>>

----------------------------------------------------------------------------
(* The commands *)

Commands == {"nickname", "ratings", "unlink"}

Next ==
    \/ \E f \in Flows, c \in Commands, u \in Accounts, g \in Guilds, m \in Accounts :
         Invoke(f, c, u, g, m)
    \/ \E f \in Flows : SelectProfile(f)
    \/ \E f \in Flows, a \in Accounts, v \in ProfileIds : ViewChoice(f, a, v)
    \/ \E f \in Flows : ViewTimeout(f)
    \/ \E f \in Flows, b \in BOOLEAN, l \in BOOLEAN : NickExists(f, b, l)
    \/ \E f \in Flows, o \in EditOutcomes : RemoveEdit(f, o)
    \/ \E f \in Flows : RemoveDelete(f)
    \/ \E f \in Flows, rs \in RatingsChoices, p \in BOOLEAN : NickCompute(f, rs, p)
    \/ \E f \in Flows, o \in EditOutcomes : SetEdit(f, o)
    \/ \E f \in Flows : SetInsert(f)
    \/ \E f \in Flows, rs \in RatingsChoices, p \in BOOLEAN : RatingsCompute(f, rs, p)
    \/ \E f \in Flows : RatingsFlag(f)
    \/ \E f \in Flows : UpdateExists(f)
    \/ \E f \in Flows, o \in EditOutcomes : UpdateEdit(f, o)
    \/ \E f \in Flows : UnlinkFetch(f)
    \/ \E f \in Flows, b \in BOOLEAN : UnlinkPrompt(f, b)

Spec == Init /\ [][Next]_vars

\* the nickname commands of one account, two of them in progress at a time
NextNick ==
    \/ \E f \in Flows, g \in Guilds : InvokeNickname(f, g)
    \/ \E f \in Flows, b \in BOOLEAN, l \in BOOLEAN : NickExists(f, b, l)
    \/ \E f \in Flows : SelectProfile(f)
    \/ \E f \in Flows, a \in Accounts, v \in ProfileIds : ViewChoice(f, a, v)
    \/ \E f \in Flows : ViewTimeout(f)
    \/ \E f \in Flows, rs \in RatingsChoices, p \in BOOLEAN : NickCompute(f, rs, p)
    \/ \E f \in Flows, o \in EditOutcomes : SetEdit(f, o)
    \/ \E f \in Flows : SetInsert(f)
    \/ \E f \in Flows, o \in EditOutcomes : RemoveEdit(f, o)
    \/ \E f \in Flows : RemoveDelete(f)

SpecNick == Init /\ [][NextNick]_vars

\* the steps of Nickname.set_or_remove in flow f: each awaits a call
\* (member.edit, pool.execute) that returns or raises
SetOrRemoveStep(f) ==
    \/ \E o \in EditOutcomes : SetEdit(f, o)
    \/ SetInsert(f)
    \/ \E o \in EditOutcomes : RemoveEdit(f, o)
    \/ RemoveDelete(f)

\* the nickname commands with every awaited call of set_or_remove
\* eventually returning or raising
SpecNickFair ==
    SpecNick /\ \A f \in Flows : WF_vars(SetOrRemoveStep(f))

----------------------------------------------------------------------------
(* The encoder on its own: _generate applied to drawn names and ratings *)

\* ratings a profile can resolve to: few and many digits, a negative value
RatingValues == {0 - 5, 250, 2500, 1234567890}

\* the maps over any roles in any iteration order
RatingMaps ==
    { rs \in UNION { [1..n -> RoleNames \X RatingValues] : n \in 0..3 } :
        \A i, j \in 1..Len(rs) : i # j => rs[i][1] # rs[j][1] }

InitEnc ==
    /\ nickname = {}
    /\ profile = InitProfiles
    /\ rating = [p \in ProfileIds |-> 0]
    /\ display = [a \in Accounts |-> [g \in Guilds |-> NoNick]]
    /\ flow = [f \in Flows |-> IdleFlow]
    /\ invoked = 0
    /\ \E n \in 0..MaxNameLen, rs \in RatingMaps :
         enc = [name |-> NameOfLen(n), ratings |-> rs, out |-> NoNick]

Encode ==
    /\ enc.out = NoNick
    /\ enc' = [enc EXCEPT !.out = Generate(enc.name, enc.ratings)]
    /\ UNCHANGED <<nickname, profile, rating, display, flow, invoked>>

NextEnc == Encode

SpecEnc == InitEnc /\ [][NextEnc]_vars

\* x of _generate: the room left for the name
Room(ratings) == MAX_NICKNAME_LENGTH - Len(Suffix(ratings)) - 1

----------------------------------------------------------------------------
(* Claims *)

\* C1 as stated: every nickname the encoder produces is at most
\* MAX_NICKNAME_LENGTH long, whatever the room left for the name.
C1_AlwaysWithinMax ==
    enc.out # NoNick => Len(enc.out) <= MAX_NICKNAME_LENGTH

\* C1 amended: the nickname the encoder produces is at most
\* MAX_NICKNAME_LENGTH long when the ratings are empty or the suffix and the
\* separating space fit (the room for the name is zero or more).
C1_WithinMaxWhenSuffixFits ==
    (enc.out # NoNick /\ (enc.ratings = <<>> \/ Room(enc.ratings) >= 0))
        => Len(enc.out) <= MAX_NICKNAME_LENGTH

\* a long name encoded with a suffix that leaves no room for it, and a name
\* shorter than its room
C1_Witness ==
    /\ enc.out # NoNick
    /\ enc.ratings # <<>>
    /\ Room(enc.ratings) = 0
    /\ Len(enc.name) > MAX_NICKNAME_LENGTH
    /\ Len(enc.out) = MAX_NICKNAME_LENGTH

Last(q) == q[Len(q)]

Sent(fl, m) == \E i \in 1..Len(fl.msgs) : fl.msgs[i] = m

Binding(fl) == NickRow(fl.user, fl.guild, fl.pid)

\* C2 as stated: when set_or_remove(remove=True) ends, whatever became of
\* the display-name edit, the account of the flow has no row in the
\* nickname table.
C2_UnbindLeavesNoRow ==
    [][\A f \in Flows :
         (flow[f].pc \in {"rm_edit", "rm_delete"} /\ flow'[f].pc = "done")
             => ~(\E r \in nickname' : r.id = flow[f].user)]_vars

\* C3: when set_or_remove(remove=False) writes its row for an account that
\* has none, after a display-name edit that failed with an HTTPException,
\* the row (account, guild, profile) is in the table and the caller was
\* sent both the failure message and the confirmation.
C3_BindPersistsAfterHTTPError ==
    [][\A f \in Flows :
         (/\ flow[f].pc = "set_insert"
          /\ flow[f].edit = "HTTPException"
          /\ ~Exists(flow[f].user)
          /\ flow'[f].pc = "done")
             => /\ Binding(flow[f]) \in nickname'
                /\ Sent(flow'[f], "bad")
                /\ Last(flow'[f].msgs) = "set"]_vars

\* a bind that ended with the failure message followed by the confirmation
\* and whose row is stored
C3_Witness ==
    \E f \in Flows :
        /\ flow[f].pc = "done"
        /\ flow[f].cmd = "nickname"
        /\ flow[f].edit = "HTTPException"
        /\ "insert" \in flow[f].calls
        /\ Sent(flow[f], "bad")
        /\ Last(flow[f].msgs) = "set"
        /\ \E r \in nickname : r.id = flow[f].user /\ r.server_id = flow[f].guild

\* C4: the insert of set_or_remove for an account that already has a row
\* leaves the nickname table as it is and is reported as an error, not
\* confirmed; a flow that saw Unbound at exists() meets this when another
\* bind of the account completed first.
C4_BindWhileBoundRejected ==
    [][\A f \in Flows :
         (/\ flow[f].pc = "set_insert"
          /\ Exists(flow[f].user)
          /\ flow'[f].pc = "done")
             => /\ nickname' = nickname
                /\ Last(flow'[f].msgs) = "error"]_vars

\* a bind lost the race: its insert was rejected and the row of the account
\* is the one of the other bind, for the other guild
C4_Witness ==
    \E f \in Flows :
        /\ flow[f].pc = "done"
        /\ "insert" \in flow[f].calls
        /\ Last(flow[f].msgs) = "error"
        /\ \E r \in nickname : r.id = flow[f].user /\ r.server_id # flow[f].guild

\* C5: the nickname table never holds two rows of the same account.
C5_OneRowPerAccount ==
    \A r1, r2 \in nickname : r1.id = r2.id => r1 = r2

\* two binds of the same account have both run their insert, in different
\* guilds, and the accounts hold a row
C5_Witness ==
    /\ \A f \in Flows : flow[f].pc = "done" /\ "insert" \in flow[f].calls
    /\ flow[1].user = flow[2].user
    /\ flow[1].guild # flow[2].guild
    /\ Exists(flow[1].user)

\* C6: with the bind and unbind flows of one account interleaved, every
\* change of the nickname table is either the insert of the whole row
\* (account, guild, profile) of one bind into a table without a row of the
\* account, or the removal of the rows of the account by one unbind; so the
\* account has no row or one row, written by one bind.
C6_RowsWrittenWhole ==
    [][nickname' # nickname =>
         /\ \A r1, r2 \in nickname' : r1.id = r2.id => r1 = r2
         /\ \E f \in Flows :
              \/ /\ flow[f].pc = "set_insert"
                 /\ flow'[f].pc = "done"
                 /\ ~Exists(flow[f].user)
                 /\ nickname' = nickname \cup {Binding(flow[f])}
              \/ /\ flow[f].pc = "rm_delete"
                 /\ flow'[f].pc = "done"
                 /\ nickname' = { r \in nickname : r.id # flow[f].user }]_vars

\* a bind and an unbind of the same account are in progress together, the
\* bind about to insert its row and the unbind about to delete
C6_Witness ==
    \E f, h \in Flows :
        /\ flow[f].pc = "set_insert"
        /\ flow[h].pc = "rm_delete"
        /\ flow[f].user = flow[h].user

\* C7: a ratings command whose refresh attempted the display-name edit and
\* failed, for whatever reason, ends normally with the ratings response as
\* the last message sent.
C7_RefreshFailureSwallowed ==
    \A f \in Flows :
        (/\ flow[f].cmd = "ratings"
         /\ "edit" \in flow[f].calls
         /\ flow[f].edit # "ok")
            => /\ flow[f].pc = "done"
               /\ flow[f].msgs # <<>>
               /\ Last(flow[f].msgs) = "ratings"

\* a ratings command whose refresh failed with an exception that is no
\* HTTPException
C7_Witness ==
    \E f \in Flows :
        /\ flow[f].cmd = "ratings"
        /\ flow[f].pc = "done"
        /\ "edit" \in flow[f].calls
        /\ flow[f].edit = "Exception"
        /\ Last(flow[f].msgs) = "ratings"

\* C8: a command that found its profile private, the nickname command or
\* the ratings command, attempts no display-name edit and neither inserts
\* nor deletes a row of the nickname table.
C8_PrivateNoMutation ==
    \A f \in Flows :
        flow[f].private
            => /\ flow[f].calls \cap {"edit", "insert", "delete"} = {}
               /\ flow[f].edit = "none"
               /\ flow[f].pc = "done"
               /\ Last(flow[f].msgs) = "private"

\* a nickname command and a ratings command both ended on a private profile
C8_Witness ==
    \E f, h \in Flows :
        /\ flow[f].private /\ flow[f].cmd = "nickname" /\ flow[f].pc = "done"
        /\ flow[h].private /\ flow[h].cmd = "ratings" /\ flow[h].pc = "done"

\* C9: the step in which select_profile raises NoChoice changes neither the
\* display names nor the nickname, profile and rating tables, and the
\* command it ends has made no display-name edit and no write to a table.
C9_NoChoiceNoChange ==
    [][\A f \in Flows :
         (flow[f].pc # "NoChoice" /\ flow'[f].pc = "NoChoice")
             => /\ UNCHANGED <<nickname, profile, rating, display>>
                /\ flow'[f].calls = {"view"}
                /\ flow'[f].edit = "none"]_vars

\* a nickname command and a ratings command both left by NoChoice
C9_Witness ==
    \E f, h \in Flows :
        /\ flow[f].pc = "NoChoice" /\ flow[f].cmd = "nickname"
        /\ flow[h].pc = "NoChoice" /\ flow[h].cmd = "ratings"

\* C10: a flow whose get_profiles returned exactly one profile holds that
\* profile as its selection, has created no selection menu and is not
\* waiting for one.
C10_SingleProfileNoMenu ==
    \A f \in Flows :
        Cardinality(flow[f].profiles) = 1
            => /\ flow[f].pid \in flow[f].profiles
               /\ flow[f].pc # "wait"
               /\ "view" \notin flow[f].calls
               /\ ~Sent(flow[f], "menu")

\* select_profile has returned the only profile of account a2 to a ratings
\* command
C10_Witness ==
    \E f \in Flows :
        /\ flow[f].cmd = "ratings"
        /\ flow[f].member = "a2"
        /\ flow[f].profiles = {3}
        /\ flow[f].pid = 3
        /\ flow[f].pc = "compute"

\* C11: when the selection menu of a flow stops waiting without a choice
\* having been made, the flow had fetched a number of profiles other than
\* one (none, or several), it holds no selected profile, and select_profile
\* is left by NoChoice.
C11_TimeoutRaisesNoChoice ==
    [][\A f \in Flows :
          (/\ flow[f].pc = "wait"
           /\ flow'[f].pc # "wait"
           /\ flow'[f].chooser = None)
              => /\ Cardinality(flow[f].profiles) # 1
                 /\ flow'[f].pc = "NoChoice"
                 /\ flow'[f].pid = IdleFlow.pid]_vars

\* a ratings command on account a2, which has no profile left, was left by
\* NoChoice without any choice made
C11_Witness ==
    \E f \in Flows :
        /\ flow[f].cmd = "ratings"
        /\ flow[f].member = "a2"
        /\ ~HasProfile("a2")
        /\ "view" \in flow[f].calls
        /\ flow[f].chooser = None
        /\ flow[f].pc = "NoChoice"

\* C12: the menu of a flow is scoped to the account that invoked the
\* command, not to the account whose profiles are listed; a step that
\* changes a waiting flow either is the timeout or carries the choice of the
\* invoking account, so no other account sets the result or ends the wait.
C12_MenuScopedToInvoker ==
    [][\A f \in Flows :
          (flow[f].pc = "wait" /\ flow'[f] # flow[f])
              => /\ flow[f].author = flow[f].user
                 /\ flow'[f].chooser \in {None, flow[f].user}]_vars

\* account a2 has chosen in the menu that lists the profiles of account a1
C12_Witness ==
    \E f \in Flows :
        /\ flow[f].user = "a2"
        /\ flow[f].member = "a1"
        /\ "view" \in flow[f].calls
        /\ flow[f].chooser = "a2"
        /\ flow[f].pid \in {1, 2}

\* C13 as stated: with ratings, the nickname is the first
\* min(len(name), max(0, room)) characters of the name, a space and the
\* suffix, where room is MAX_NICKNAME_LENGTH - len(suffix) - 1; with no room
\* the name part is empty.
C13_BaseTruncatedToRoom ==
    (enc.out # NoNick /\ enc.ratings # <<>>)
        => enc.out = SubSeq(enc.name, 1,
                            Min(Len(enc.name), Max(0, Room(enc.ratings))))
                     \o <<" ">> \o Suffix(enc.ratings)

InRoleOrder(ratings) ==
    LET Of(k) == { i \in 1..Len(ratings) : ratings[i][1] = k }
        Pick(k) == IF Of(k) = {} THEN <<>>
                   ELSE << ratings[CHOOSE i \in Of(k) : TRUE] >>
    IN  Pick("tank") \o Pick("offense") \o Pick("support")

\* C15 as stated: the suffix of the nickname lists the roles in the order
\* tank, offense, support whatever the order of the ratings map, each as
\* glyph and rating, joined by "/" without a trailing one, within brackets.
C15_SuffixInRoleOrder ==
    (enc.out # NoNick /\ enc.ratings # <<>>)
        => LET want == <<"[">> \o DropLast(JoinRatings(InRoleOrder(enc.ratings)))
                       \o <<"]">>
           IN  /\ Len(enc.out) >= Len(want)
               /\ SubSeq(enc.out, Len(enc.out) - Len(want) + 1, Len(enc.out))
                    = want

\* C16 as stated: a bind that told its caller that the display name cannot
\* be changed, because of the role hierarchy or because the platform refused
\* the change, still goes on and writes its row.
C16_HierarchyBindPersists ==
    \A f \in Flows :
        (/\ flow[f].cmd = "nickname"
         /\ flow[f].pc = "done"
         /\ "delete" \notin flow[f].calls
         /\ (Sent(flow[f], "hierarchy") \/ Sent(flow[f], "bad")))
            => "insert" \in flow[f].calls

\* C17 as stated: a refresh or an unbind changes the display name of its
\* account in the guild that the binding of the account records, and a bind
\* records the guild in which it changed the display name.
C17_MutationInBoundGuild ==
    [][\A f \in Flows :
          /\ (/\ flow[f].pc \in {"rm_edit", "upd_edit"}
              /\ flow'[f].pc # flow[f].pc
              /\ flow'[f].edit = "ok")
                 => \A r \in nickname :
                        r.id = flow[f].user => r.server_id = flow[f].guild
          /\ (/\ flow[f].pc = "set_insert"
              /\ flow'[f].pc # flow[f].pc
              /\ Sent(flow'[f], "set"))
                 => \E r \in nickname' :
                        r.id = flow[f].user /\ r.server_id = flow[f].guild]_vars

FlowStep(h) ==
    \/ SelectProfile(h)
    \/ \E a \in Accounts, v \in ProfileIds : ViewChoice(h, a, v)
    \/ ViewTimeout(h)
    \/ \E b \in BOOLEAN, l \in BOOLEAN : NickExists(h, b, l)
    \/ \E o \in EditOutcomes : RemoveEdit(h, o)
    \/ RemoveDelete(h)
    \/ \E rs \in RatingsChoices, p \in BOOLEAN : NickCompute(h, rs, p)
    \/ \E o \in EditOutcomes : SetEdit(h, o)
    \/ SetInsert(h)
    \/ \E rs \in RatingsChoices, p \in BOOLEAN : RatingsCompute(h, rs, p)
    \/ RatingsFlag(h)
    \/ UpdateExists(h)
    \/ \E o \in EditOutcomes : UpdateEdit(h, o)
    \/ UnlinkFetch(h)
    \/ \E b \in BOOLEAN : UnlinkPrompt(h, b)

\* C19: while the flow of one account waits on its selection menu, the
\* nickname and ratings commands of every other account that has a profile
\* can be invoked in a free flow (as long as invocations remain), and every
\* other flow in progress can take its next step, up to its end.
C19_WaitBlocksNoOtherFlow ==
    \A f, h \in Flows :
        (f # h /\ flow[f].pc = "wait")
            => /\ flow[h].pc \notin Ended => ENABLED FlowStep(h)
               /\ (flow[h].pc \in Ended /\ invoked < MaxInvocations)
                    => \A u \in Accounts \ {flow[f].user} :
                         HasProfile(u)
                            => \A c \in {"nickname", "ratings"} :
                                 ENABLED (\E g \in Guilds, m \in Accounts :
                                            Invoke(h, c, u, g, m))

\* account a1 waits on its menu while the nickname command of account a2,
\* invoked after a1's command, has run to its confirmation
C19_Witness ==
    /\ flow[1].pc = "wait" /\ flow[1].user = "a1"
    /\ invoked = 2
    /\ flow[2].user = "a2" /\ flow[2].cmd = "nickname"
    /\ flow[2].pc = "done" /\ Sent(flow[2], "set")

\* C20: a nickname command that has reached set_or_remove, to bind or to
\* unbind, eventually ends with an outcome message sent last: the
\* confirmation of the bind or of the unbind, or the text of the failure.
C20_SetOrRemoveReports ==
    \A f \in Flows :
        (flow[f].pc \in {"set_edit", "rm_edit"})
            ~> (/\ flow[f].pc = "done"
                /\ flow[f].msgs # <<>>
                /\ Last(flow[f].msgs) \in {"set", "removed", "error"})

\* a bind whose member.edit raised HTTPException and whose insert was
\* rejected has ended with the text of the failure
C20_Witness ==
    \E f \in Flows :
        /\ flow[f].cmd = "nickname"
        /\ flow[f].edit = "HTTPException"
        /\ "insert" \in flow[f].calls
        /\ flow[f].pc = "done"
        /\ Sent(flow[f], "bad")
        /\ Last(flow[f].msgs) = "error"

\* C21: when Nickname.update finds no row of its account, the ratings
\* command goes on to its response: member.edit is not called and no
\* display name changes.
C21_RefreshWithoutRowEditsNothing ==
    [][\A f \in Flows :
          (/\ flow[f].pc = "upd_exists"
           /\ flow'[f] # flow[f]
           /\ ~Exists(flow[f].user))
              => /\ flow'[f].pc = "done"
                 /\ "edit" \notin flow'[f].calls
                 /\ flow'[f].edit = "none"
                 /\ Sent(flow'[f], "ratings")
                 /\ display' = display]_vars

\* a ratings command called update for an account whose row an unbind had
\* deleted in between, and ended without calling member.edit
C21_Witness ==
    \E f, h \in Flows :
        /\ flow[f].cmd = "ratings"
        /\ "update" \in flow[f].calls
        /\ "edit" \notin flow[f].calls
        /\ flow[f].pc = "done"
        /\ ~Exists(flow[f].user)
        /\ flow[h].cmd = "nickname" /\ flow[h].user = flow[f].user
        /\ Sent(flow[h], "removed")

\* C22: no step of exists() or of Nickname.update, whatever the outcome of
\* member.edit, changes the nickname table.
C22_RefreshAndExistsKeepTable ==
    [][\A f \in Flows :
          (/\ flow[f].pc \in {"exists", "upd_exists", "upd_edit"}
           /\ flow'[f] # flow[f])
              => nickname' = nickname]_vars

\* a refresh whose member.edit failed has ended and the row of its account
\* is in the table
C22_Witness ==
    \E f \in Flows :
        /\ flow[f].cmd = "ratings"
        /\ "update" \in flow[f].calls
        /\ flow[f].edit \in {"HTTPException", "Exception"}
        /\ flow[f].pc = "done"
        /\ NickRow("a1", "g1", 1) \in nickname
        /\ flow[f].user = "a1"

\* C23: the step of unlink that deletes a profile deletes the row of that
\* profile and nothing else: the nickname table, with any row that names the
\* profile, the rating table and the display names are as before.
C23_UnlinkDeletesOnlyProfile ==
    [][\A f \in Flows :
          (/\ flow[f].pc = "unlink_prompt"
           /\ Sent(flow'[f], "unlinked"))
              => /\ profile' = { p \in profile : p.id # flow[f].pid }
                 /\ nickname' = nickname
                 /\ \A r \in nickname :
                       r.profile_id = flow[f].pid => r \in nickname'
                 /\ rating' = rating
                 /\ display' = display]_vars

\* account a2 has unlinked its profile and its row in the nickname table
\* still names it
C23_Witness ==
    \E f \in Flows :
        /\ flow[f].cmd = "unlink" /\ flow[f].user = "a2"
        /\ flow[f].pc = "done" /\ Sent(flow[f], "unlinked")
        /\ \E r \in nickname :
              /\ r.id = "a2"
              /\ r.profile_id = 3
              /\ ~\E p \in profile : p.id = r.profile_id

\* the ids of the rows of the profile table that belong to member m
OwnedBy(m) == { p.id : p \in { q \in profile : q.member_id = m } }

\* C24: the profiles a call of select_profile fetches are profiles of the
\* member it was called for; the profile it returns, at once or after the
\* menu, is one of those fetched, and a call that leaves the menu without
\* returning one of them is left by NoChoice with no profile.
C24_ReturnsFetchedProfile ==
    [][\A f \in Flows :
          /\ (flow[f].pc = "select" /\ flow'[f].pc # "select")
                => /\ flow'[f].profiles \subseteq OwnedBy(flow[f].member)
                   /\ flow'[f].pc = "compute"
                         => flow'[f].pid \in flow'[f].profiles
          /\ (flow[f].pc = "wait" /\ flow'[f].pc = "compute")
                => /\ flow'[f].pid \in flow[f].profiles
                   /\ flow'[f].profiles = flow[f].profiles
          /\ (flow[f].pc = "wait" /\ flow'[f].pc \notin {"wait", "compute"})
                => /\ flow'[f].pc = "NoChoice"
                   /\ flow'[f].pid = IdleFlow.pid]_vars

\* one call has returned the profile chosen among the two fetched, another
\* was left by NoChoice after a choice that matched none
C24_Witness ==
    \E f, h \in Flows :
        /\ flow[f].pc = "compute"
        /\ flow[f].chooser = flow[f].user
        /\ flow[f].profiles = {1, 2}
        /\ flow[f].pid \in flow[f].profiles
        /\ flow[h].pc = "NoChoice"
        /\ flow[h].chooser = flow[h].user

\* C25: a nickname command that ends at its prompt without a message, the
\* prompt having been declined, has called neither member.edit nor the
\* store, and its last step leaves the nickname table and the display
\* names as they were, for a bound account and for an unbound one.
C25_DeclinedPromptChangesNothing ==
    [][\A f \in Flows :
          (/\ flow[f].pc = "exists"
           /\ flow'[f].pc = "done"
           /\ flow'[f].msgs = flow[f].msgs)
              => /\ nickname' = nickname
                 /\ display' = display
                 /\ flow'[f].calls = {}
                 /\ flow'[f].edit = "none"]_vars

\* the prompt was declined by account a1, which is bound, and by account
\* a2, which is not
C25_Witness ==
    \E f, h \in Flows :
        /\ flow[f].cmd = "nickname" /\ flow[f].user = "a1"
        /\ flow[f].pc = "done" /\ flow[f].msgs = <<>>
        /\ Exists("a1")
        /\ flow[h].cmd = "nickname" /\ flow[h].user = "a2"
        /\ flow[h].pc = "done" /\ flow[h].msgs = <<>>
        /\ ~Exists("a2")

====
